---- MODULE Spec2Model ----
(***************************************************************************)
(* LiveTrader market-data layer: MarketDataManager (quote / historical /   *)
(* indicator fetchers with provider fallback, cache, rate limiter and      *)
(* synthetic data) and its market clock, modelled from                     *)
(* src/market_data_integration.js.                                         *)
(*                                                                         *)
(* Time is the millisecond clock Date.now() read at a resolution of 100 ms *)
(* (Ms), so that the 50-day span of the synthetic indicator series fits an *)
(* integer; every program interval is a multiple of 100 ms.  Prices are    *)
(* integers and a quotient the program computes in floating point is kept  *)
(* as an exact fraction (Rat).  A value that may be null is a sequence of  *)
(* length 0 (None) or 1 (Some(v)).                                         *)
(***************************************************************************)
EXTENDS Integers, Sequences, FiniteSets, TLC

VARIABLES
    now,          \* Date.now(), in units of 100 ms
    keys,         \* alphaVantageKey, finnhubKey, polygonKey
    cache,        \* this.cache: key -> [data, timestamp]
    lastApiCall,  \* this.lastApiCall
    proc,         \* one record per caller: position in its request and locals
    fetchLog,     \* history: the provider network calls started so far, each with
                  \* its start time, its request and the lastApiCall it was checked against
    nreq,         \* history: number of requests begun
    nticks,       \* history: number of clock advances
    overlap,      \* history: pairs of requests that were in flight together
    clock,        \* the instant read by updateStatus and the zone offset in force
    marketStatus, \* text of the #market-status element
    probe,        \* one adapter call on its own: its arguments, the response, its result
    ticker,       \* the EnhancedMarketTicker: its two intervals and refresh cycles
    config,       \* API_CONFIG: the provider keys, and what initializeAPIConfig reported
    chat          \* the LiveTraderAPI client and the chat window around it

vars == <<now, keys, cache, lastApiCall, proc, fetchLog, nreq, nticks,
          overlap, clock, marketStatus, probe, ticker, config, chat>>

mdmVars == <<now, keys, cache, lastApiCall, proc, fetchLog, nreq, nticks, overlap>>
clockVars == <<clock, marketStatus>>
pageVars == <<config, chat>>
otherVars == <<probe, ticker, pageVars>>

----------------------------------------------------------------------------
(* Bounds of the model *)

MaxReqs == 2         \* operations (requests, setApiKeys) begun in one behaviour
MaxTicks == 2        \* clock advances in one behaviour
LongPayload == 101   \* entries of the long provider indicator payload
MaxPeriods == 10     \* 30-second periods over which the ticker's timers are followed

\* The call sites that use the shared manager concurrently: a periodic
\* refresh loop (quotes of its tracked symbols) and the page's direct API calls
\* (every data kind).
Callers == {"refresh", "direct"}

----------------------------------------------------------------------------
(* Values *)

None == <<>>
Some(v) == <<v>>
Truthy(x) == x # None
EmptyObj == [x \in {} |-> x]

Ms(n) == n \div 100

Rat(n, d) == [num |-> n, den |-> d]

cacheTimeout == Ms(60000)
minApiInterval == Ms(1000)
longCacheTimeout == Ms(300000)
FiveMinutes == Ms(5 * 60 * 1000)
OneDay == Ms(24 * 60 * 60 * 1000)
StartTime == 51 * OneDay

\* a symbol of the base-value table and one outside it
Symbols == {"AAPL", "GLD"}
\* the symbols each call site asks for
SymbolsOf(p) == IF p = "refresh" THEN Symbols ELSE {"AAPL"}
IndicatorLists == {<<"RSI", "MACD">>, <<"SMA", "VWAP">>, <<>>, <<"">>}

----------------------------------------------------------------------------
(* Strings of provider payloads: sequences of characters *)

Digits == <<"0", "1", "2", "3", "4", "5", "6", "7", "8", "9">>
IsDigit(c) == \E i \in 1..10 : Digits[i] = c
DigitVal(c) == (CHOOSE i \in 1..10 : Digits[i] = c) - 1

\* String.prototype.replace(ch, ''): drops the first occurrence of ch
RECURSIVE ReplaceFirst(_, _)
ReplaceFirst(s, ch) ==
    IF s = <<>> THEN <<>>
    ELSE IF Head(s) = ch THEN Tail(s)
    ELSE <<Head(s)>> \o ReplaceFirst(Tail(s), ch)

\* the longest prefix of digits of s, read as a number
RECURSIVE DigitPrefix(_, _)
DigitPrefix(s, acc) ==
    IF s = <<>> \/ ~IsDigit(Head(s)) THEN acc
    ELSE DigitPrefix(Tail(s), acc * 10 + DigitVal(Head(s)))

\* parseFloat / parseInt on the integer literals the payloads carry: an
\* optional sign, then digits up to the first other character
ParseFloat(s) ==
    IF s # <<>> /\ Head(s) = "-" THEN 0 - DigitPrefix(Tail(s), 0)
    ELSE DigitPrefix(s, 0)

\* new Date(str).getTime() on a date string that names day number d
DateParse(d) == d * OneDay
\* new Date(str).getTime() on a date-time string that names 5-minute slot n
DateTimeParse(n) == n * FiveMinutes

----------------------------------------------------------------------------
(* Array.prototype.sort with a comparator on timestamps.  The sort is      *)
(* stable: elements the comparator calls equal keep their order.  Element  *)
(* i goes to the place given by the number of elements that sort before it.*)

SortBy(s, desc) ==
    LET n == Len(s)
        a == SubSeq(s, 1, n)
        \* cmp(a[j], a[i]) < 0 iff key[j] < key[i]
        key == SubSeq([i \in 1..n |-> IF desc THEN 0 - a[i].timestamp
                                              ELSE a[i].timestamp], 1, n)
        before(j, i) == key[j] < key[i] \/ (key[j] = key[i] /\ j < i)
        place == SubSeq([i \in 1..n |-> Cardinality({j \in 1..n : before(j, i)}) + 1],
                        1, n)
    IN SubSeq([k \in 1..n |-> a[CHOOSE i \in 1..n : place[i] = k]], 1, n)

\* sort((a, b) => a.timestamp - b.timestamp)
\* faulty variant of SortAscending: the order of Object.entries is kept
SortAscendingUnsorted(s) == s

SortAscending(s) == SortBy(s, FALSE)
\* sort((a, b) => b.timestamp - a.timestamp)
SortDescending(s) == SortBy(s, TRUE)

Slice(s, n) == IF Len(s) <= n THEN s ELSE SubSeq(s, 1, n)

----------------------------------------------------------------------------
(* Math.random(): the draws of one call of a synthetic generator.  Each    *)
(* field is the value of one product of Math.random() in the code, in its  *)
(* range; the points of one synthetic series share one draw.               *)

RandomDraws ==
    { [d |-> -5, vol |-> 0, hi |-> 0, lo |-> 4, op |-> -1, hd |-> -10,
       ho |-> -1, hh |-> 0, hl |-> 2, hv |-> 0,
       rsi |-> 0, macd |-> -5, signal |-> -4, histogram |-> 2],
      [d |-> 4, vol |-> 9999999, hi |-> 4, lo |-> 0, op |-> 1, hd |-> 9,
       ho |-> 0, hh |-> 2, hl |-> 0, hv |-> 999999,
       rsi |-> 39, macd |-> 4, signal |-> 3, histogram |-> -2] }

baseValues ==
    [IXIC |-> 15000, SPX |-> 4500, DJI |-> 35000, AAPL |-> 175,
     GOOGL |-> 140, MSFT |-> 350, TSLA |-> 250]

\* faulty variant of basePriceOf: no default for a symbol outside the table
basePriceOfNoDefault(symbol) ==
    IF symbol \in DOMAIN baseValues THEN baseValues[symbol] ELSE 0

basePriceOf(symbol) ==
    IF symbol \in DOMAIN baseValues THEN baseValues[symbol] ELSE 100

getFallbackQuote(symbol, r, t) ==
    LET basePrice == basePriceOf(symbol)
        randomChange == r.d
        price == basePrice + randomChange
    IN [symbol |-> symbol,
        price |-> price,
        change |-> randomChange,
        changePercent |-> Rat(randomChange * 100, basePrice),
        volume |-> r.vol,
        high |-> price + r.hi,
        low |-> price - r.lo,
        open |-> price + r.op,
        previousClose |-> price - randomChange,
        timestamp |-> t,
        source |-> "Demo Data"]

\* faulty variant of getFallbackHistoricalData: the loop starts at i = 99
getFallbackHistoricalDataFrom99(symbol, r, t) ==
    LET basePrice == getFallbackQuote(symbol, r, t).price
        point(i) ==
            LET price == basePrice + r.hd
            IN [timestamp |-> t - (i * FiveMinutes),
                open |-> price + r.ho,
                high |-> price + r.hh,
                low |-> price - r.hl,
                close |-> price,
                volume |-> r.hv]
    IN [k \in 1..100 |-> point(100 - k)]

getFallbackHistoricalData(symbol, r, t) ==
    LET basePrice == getFallbackQuote(symbol, r, t).price
        point(i) ==
            LET price == basePrice + r.hd
            IN [timestamp |-> t - (i * FiveMinutes),
                open |-> price + r.ho,
                high |-> price + r.hh,
                low |-> price - r.hl,
                close |-> price,
                volume |-> r.hv]
    IN [k \in 1..101 |-> point(101 - k)]

getFallbackIndicator(symbol, indicator, r, t) ==
    LET ts(k) == t - ((51 - k) * OneDay)
    IN IF indicator = "RSI"
       THEN [k \in 1..51 |-> [timestamp |-> ts(k), value |-> 30 + r.rsi]]
       ELSE IF indicator = "MACD"
       THEN [k \in 1..51 |-> [timestamp |-> ts(k), macd |-> r.macd,
                              signal |-> r.signal, histogram |-> r.histogram]]
       ELSE <<>>

----------------------------------------------------------------------------
(* Provider responses.  A response is a transport or JSON failure, or the  *)
(* parsed body.  Provider-reported change fields are mutually consistent.  *)

Failure == [kind |-> "error"]
Json(b) == [kind |-> "json", body |-> b]

\* how a block of code ends: by a throw, or normally with a value
Thrown == [threw |-> TRUE, value |-> None]
Normal(v) == [threw |-> FALSE, value |-> v]

\* faulty variant of adapterCatch: the error is passed on
adapterRethrow(res) == res

\* try { ... } catch (error) { console.error(...) } return null;
adapterCatch(res) == IF res.threw THEN Normal(None) ELSE res

AlphaVantageQuoteBodies ==
    { [gq |-> None],                           \* rate-limit note, error message
      [gq |-> Some([changePercent |-> None])], \* "Global Quote": {}
      [gq |-> Some([price |-> <<"1", "1", "0">>,
                    change |-> <<"1", "0">>,
                    changePercent |-> Some(<<"1", "0", "%">>),
                    volume |-> <<"5", "0", "0">>,
                    high |-> <<"1", "1", "2">>,
                    low |-> <<"9", "9">>,
                    open |-> <<"1", "0", "1">>,
                    previousClose |-> <<"1", "0", "0">>,
                    day |-> 40])] }

FinnhubQuoteBodies ==
    { [c |-> 0, d |-> 0, dp |-> 0, h |-> 0, l |-> 0, o |-> 0, pc |-> 0, t |-> 0],
      [c |-> 110, d |-> 10, dp |-> 10, h |-> 112, l |-> 99, o |-> 101,
       pc |-> 100, t |-> 4000] }

PolygonQuoteBodies ==
    { [results |-> None],
      [results |-> Some(<<>>)],
      [results |-> Some(<<[c |-> 110, o |-> 100, h |-> 112, l |-> 99,
                           v |-> 500, t |-> 40000]>>)],
      [results |-> Some(<<[c |-> 100, o |-> 100, h |-> 100, l |-> 100,
                           v |-> 0, t |-> 40000]>>)] }

\* the try block of getAlphaVantageQuote
tryAlphaVantageQuote(symbol, resp) ==
    IF resp.kind # "json" THEN Thrown
    ELSE IF ~Truthy(resp.body.gq) THEN Normal(None)
    ELSE LET quote == resp.body.gq[1]
         IN IF quote.changePercent = None THEN Thrown  \* undefined.replace throws
            ELSE Normal(Some([symbol |-> symbol,
                       price |-> ParseFloat(quote.price),
                       change |-> ParseFloat(quote.change),
                       changePercent |->
                           Rat(ParseFloat(ReplaceFirst(quote.changePercent[1], "%")), 1),
                       volume |-> ParseFloat(quote.volume),
                       high |-> ParseFloat(quote.high),
                       low |-> ParseFloat(quote.low),
                       open |-> ParseFloat(quote.open),
                       previousClose |-> ParseFloat(quote.previousClose),
                       timestamp |-> DateParse(quote.day),
                       source |-> "Alpha Vantage"]))

\* getAlphaVantageQuote, from the fetch on
parseAlphaVantageQuote(symbol, resp) ==
    adapterCatch(tryAlphaVantageQuote(symbol, resp)).value

\* the try block of getFinnhubQuote
tryFinnhubQuote(symbol, resp) ==
    IF resp.kind # "json" THEN Thrown
    ELSE LET data == resp.body
         IN IF data.c = 0 THEN Normal(None)
            ELSE Normal(Some([symbol |-> symbol,
                       price |-> data.c,
                       change |-> data.d,
                       changePercent |-> Rat(data.dp, 1),
                       high |-> data.h,
                       low |-> data.l,
                       open |-> data.o,
                       previousClose |-> data.pc,
                       timestamp |-> Ms(data.t * 1000),
                       source |-> "Finnhub"]))

\* getFinnhubQuote, from the fetch on
parseFinnhubQuote(symbol, resp) ==
    adapterCatch(tryFinnhubQuote(symbol, resp)).value

\* the try block of getPolygonQuote
tryPolygonQuote(symbol, resp) ==
    IF resp.kind # "json" THEN Thrown
    ELSE IF ~Truthy(resp.body.results) \/ resp.body.results[1] = <<>> THEN Normal(None)
    ELSE LET result == resp.body.results[1][1]
         IN Normal(Some([symbol |-> symbol,
                  price |-> result.c,
                  change |-> result.c - result.o,
                  changePercent |-> Rat((result.c - result.o) * 100, result.o),
                  volume |-> result.v,
                  high |-> result.h,
                  low |-> result.l,
                  open |-> result.o,
                  previousClose |-> result.c,
                  timestamp |-> Ms(result.t),
                  source |-> "Polygon"]))

\* getPolygonQuote, from the fetch on
parsePolygonQuote(symbol, resp) ==
    adapterCatch(tryPolygonQuote(symbol, resp)).value

----------------------------------------------------------------------------
(* Historical and indicator payloads *)

HistoricalValues ==
    [open |-> <<"1", "0", "1">>, high |-> <<"1", "1", "2">>, low |-> <<"9", "9">>,
     close |-> <<"1", "1", "0">>, volume |-> <<"5", "0", "0">>]

\* data["Time Series (5min)"]: entries in the order of Object.entries
AlphaVantageHistoricalBodies ==
    { [series |-> None],
      [series |-> Some(<<>>)],
      [series |-> Some(<<[slot |-> 7, values |-> HistoricalValues],
                         [slot |-> 6, values |-> HistoricalValues],
                         [slot |-> 5, values |-> HistoricalValues]>>)] }

\* the try block of getAlphaVantageHistorical
tryAlphaVantageHistorical(resp) ==
    IF resp.kind # "json" THEN Thrown
    ELSE IF ~Truthy(resp.body.series) THEN Normal(None)
    ELSE LET timeSeries == resp.body.series[1]
             historicalData ==
                 [i \in 1..Len(timeSeries) |->
                     [timestamp |-> DateTimeParse(timeSeries[i].slot),
                      open |-> ParseFloat(timeSeries[i].values.open),
                      high |-> ParseFloat(timeSeries[i].values.high),
                      low |-> ParseFloat(timeSeries[i].values.low),
                      close |-> ParseFloat(timeSeries[i].values.close),
                      volume |-> ParseFloat(timeSeries[i].values.volume)]]
         IN Normal(Some(SortAscending(historicalData)))

\* getAlphaVantageHistorical, from the fetch on
parseAlphaVantageHistorical(resp) ==
    adapterCatch(tryAlphaVantageHistorical(resp)).value

functionMap == {"RSI", "MACD", "SMA", "EMA", "BBANDS"}

IndicatorValues(indicator) ==
    IF indicator = "MACD"
    THEN [MACD |-> <<"-", "2">>, MACD_Signal |-> <<"1">>, MACD_Hist |-> <<"-", "3">>]
    ELSE (indicator :> <<"5", "0">>)

\* data["Technical Analysis: <func>"]: entries in the order of Object.entries
IndicatorBodies(indicator) ==
    LET e(d) == [day |-> d, values |-> IndicatorValues(indicator)]
    IN { [ta |-> None],
         [ta |-> Some(<<e(30), e(29), e(28)>>)],
         [ta |-> Some(<<e(29), e(30), e(28)>>)] }
       \cup (IF indicator = "RSI"
             THEN {[ta |-> Some([k \in 1..LongPayload |-> e(200 - k)])]}
             ELSE {})

parseIndicatorData(data, type) ==
    LET entry(i) ==
            LET timestamp == DateParse(data[i].day)
                values == data[i].values
            IN IF type = "RSI"
               THEN [timestamp |-> timestamp, value |-> ParseFloat(values.RSI)]
               ELSE IF type = "MACD"
               THEN [timestamp |-> timestamp,
                     macd |-> ParseFloat(values.MACD),
                     signal |-> ParseFloat(values.MACD_Signal),
                     histogram |-> ParseFloat(values.MACD_Hist)]
               ELSE IF type = "SMA" \/ type = "EMA"
               THEN [timestamp |-> timestamp, value |-> ParseFloat(values[type])]
               ELSE [timestamp |-> timestamp]
        parsed == [i \in 1..Len(data) |-> entry(i)]
    IN Slice(SortDescending(parsed), 100)

\* the try block of getAlphaVantageIndicator
tryAlphaVantageIndicator(indicator, resp) ==
    IF resp.kind # "json" THEN Thrown
    ELSE IF indicator \in {"RSI", "MACD", "SMA", "EMA"} /\ Truthy(resp.body.ta)
         THEN Normal(Some(parseIndicatorData(resp.body.ta[1], indicator)))
         ELSE Normal(None)

\* getAlphaVantageIndicator, from the fetch on
parseAlphaVantageIndicator(indicator, resp) ==
    adapterCatch(tryAlphaVantageIndicator(indicator, resp)).value

----------------------------------------------------------------------------
(* Cache *)

\* `quote_${symbol}`, `historical_${symbol}_${period}_${interval}`,
\* `indicators_${symbol}_${indicators.join('_')}`, as their '_'-separated parts
quoteKey(symbol) == <<"quote", symbol>>
historicalKey(symbol, period, interval) == <<"historical", symbol, period, interval>>
indicatorsKey(symbol, indicators) ==
    <<"indicators", symbol>> \o (IF indicators = <<>> THEN <<"">> ELSE indicators)

\* faulty variants of isCacheValid: the comparison reversed; the boundary included
isCacheValidReversed(c, key, timeout, t) ==
    key \in DOMAIN c /\ (t - c[key].timestamp) > timeout

isCacheValidInclusive(c, key, timeout, t) ==
    key \in DOMAIN c /\ (t - c[key].timestamp) <= timeout

isCacheValid(c, key, timeout, t) ==
    key \in DOMAIN c /\ (t - c[key].timestamp) < timeout

\* faulty variant of cacheSet: nothing is stored
cacheSetNothing(c, key, data, t) == c

\* faulty variant of cacheSet: the write drops every other entry
cacheSetEvicting(c, key, data, t) == (key :> [data |-> data, timestamp |-> t])

cacheSet(c, key, data, t) == (key :> [data |-> data, timestamp |-> t]) @@ c

----------------------------------------------------------------------------
(* Rate limiter *)

\* faulty variant of rateLimitWait: the interval measured from the wrong end
rateLimitWaitBackwards(t, last) ==
    LET timeSinceLastCall == last - t
    IN IF timeSinceLastCall >= minApiInterval
       THEN Some(minApiInterval)
       ELSE None

\* rateLimitDelay up to its await: the delay to sleep, or None
rateLimitWait(t, last) ==
    LET timeSinceLastCall == t - last
    IN IF timeSinceLastCall < minApiInterval
       THEN Some(minApiInterval - timeSinceLastCall)
       ELSE None

\* rateLimitDelay's last statement, run at time t
recordApiCall(last, t) == t

----------------------------------------------------------------------------
(* Requests.  A caller's record holds the position of its current request  *)
(* (pc: idle, rlwait = asleep in rateLimitDelay, fetch = network call in   *)
(* flight, resume = adapter settled and orchestrator about to continue,    *)
(* done = returned) and its locals.  req, entry, hit and calls are         *)
(* history: the request's number, the cache entry found under its key on   *)
(* entry, whether the cache check returned it, and the adapters invoked    *)
(* with their outcomes.  seen is the lastApiCall a sleeping rateLimitDelay *)
(* read before its await.                                                  *)

IdleProc ==
    [pc |-> "idle", kind |-> "none", symbol |-> "", indicators |-> <<>>,
     stage |-> "none", idx |-> 0, ret |-> None, results |-> EmptyObj,
     wake |-> 0, seen |-> 0, req |-> 0, entry |-> "none", hit |-> FALSE,
     calls |-> <<>>]

InFlight(pr) == pr.pc \notin {"idle", "done"}

\* the cache entry a request finds under its key, by its age against the ttl
EntryFound(key, ttl) ==
    IF key \notin DOMAIN cache THEN "none"
    ELSE IF now - cache[key].timestamp < ttl THEN "fresh"
    ELSE IF now - cache[key].timestamp = ttl THEN "expired now"
    ELSE "stale"

NewRequest(kind, symbol, indicators, key, ttl) ==
    [IdleProc EXCEPT !.kind = kind, !.symbol = symbol, !.indicators = indicators,
                     !.req = nreq + 1, !.entry = EntryFound(key, ttl)]

\* the machine state a step threads through: the caller's record, lastApiCall,
\* the log of network calls and the cache
Machine(pr) == [pr |-> pr, last |-> lastApiCall, log |-> fetchLog, cache |-> cache]

Returned(m, value) ==
    [m EXCEPT !.pr.pc = "done", !.pr.ret = value, !.pr.stage = "none", !.pr.idx = 0,
              !.pr.results = EmptyObj, !.pr.wake = 0]

\* faulty variant of Settled: the orchestrator goes on while the adapter's call
\* is still open
SettledNotAwaited(m, value) ==
    [m EXCEPT !.pr.pc = "resume", !.pr.ret = value]

\* an adapter's promise settles with value; the awaiting orchestrator resumes later
Settled(m, value) ==
    LET n == Len(m.pr.calls)
    IN [m EXCEPT !.pr.pc = "resume", !.pr.ret = value,
                 !.pr.calls[n].outcome = IF Truthy(value) THEN "data" ELSE "nodata"]

\* the adapter code between rateLimitDelay and the await of fetch
StartCall(m, seen) ==
    LET m1 == [m EXCEPT !.last = recordApiCall(m.last, now)]
    IN IF m.pr.kind = "ind" /\ m.pr.stage \notin functionMap
       THEN Settled(m1, None)
       ELSE [m1 EXCEPT !.pr.pc = "fetch", !.pr.wake = 0, !.pr.seen = 0,
                       !.log = Append(@, [t |-> now, req |-> m.pr.req,
                                          adapter |-> m.pr.stage,
                                          seen |-> seen])]

\* await this.rateLimitDelay(), then the call
EnterNetwork(m) ==
    LET wait == rateLimitWait(now, m.last)
    IN IF Truthy(wait)
       THEN [m EXCEPT !.pr.pc = "rlwait", !.pr.wake = now + wait[1],
                      !.pr.seen = m.last]
       ELSE StartCall(m, m.last)

Invoked(m, adapter) ==
    [m EXCEPT !.pr.stage = adapter,
              !.pr.calls = Append(@, [adapter |-> adapter, outcome |-> "pending"])]

\* faulty variant of InvokeQuoteAdapter: the placeholder key is not looked at
InvokeQuoteAdapterAlwaysFetch(m, adapter, r) == EnterNetwork(Invoked(m, adapter))

\* getAlphaVantageQuote / getFinnhubQuote / getPolygonQuote up to the first await
InvokeQuoteAdapter(m, adapter, r) ==
    LET m1 == Invoked(m, adapter)
    IN IF keys[adapter] = "demo"
       THEN Settled(m1, IF adapter = "av"
                        THEN Some(getFallbackQuote(m.pr.symbol, r, now)) ELSE None)
       ELSE EnterNetwork(m1)

\* getAlphaVantageHistorical up to the first await
InvokeHistoricalAdapter(m, r) ==
    LET m1 == Invoked(m, "avh")
    IN IF keys.av = "demo"
       THEN Settled(m1, Some(getFallbackHistoricalData(m.pr.symbol, r, now)))
       ELSE EnterNetwork(m1)

\* getAlphaVantageIndicator up to the first await
InvokeIndicatorAdapter(m, indicator, r) ==
    LET m1 == Invoked(m, indicator)
    IN IF keys.av = "demo"
       THEN Settled(m1, Some(getFallbackIndicator(m.pr.symbol, indicator, r, now)))
       ELSE EnterNetwork(m1)

----------------------------------------------------------------------------
(* getRealTimeQuote *)

\* faulty variant of nextQuoteProvider: Polygon tried whatever Finnhub returned
nextQuoteProviderAlwaysPolygon(stage, quote) ==
    IF stage = "av" THEN (IF Truthy(quote) THEN "finish" ELSE "fh")
    ELSE IF stage = "fh" THEN "pg"
    ELSE "finish"

\* the provider to try after `stage` returned quote: the chain of if (!quote)
nextQuoteProvider(stage, quote) ==
    IF Truthy(quote) THEN "finish"
    ELSE IF stage = "av" THEN "fh"
    ELSE IF stage = "fh" THEN "pg"
    ELSE "finish"

\* if (quote) cache.set(...); return quote
finishQuote(m, quote) ==
    Returned(IF Truthy(quote)
             THEN [m EXCEPT !.cache = cacheSet(@, quoteKey(m.pr.symbol), quote[1], now)]
             ELSE m,
             quote)

getRealTimeQuote(pr, r) ==
    LET cacheKey == quoteKey(pr.symbol)
        m == Machine(pr)
    IN IF isCacheValid(cache, cacheKey, cacheTimeout, now)
       THEN Returned([m EXCEPT !.pr.hit = TRUE], Some(cache[cacheKey].data))
       ELSE InvokeQuoteAdapter(m, "av", r)

resumeQuote(pr, r) ==
    LET m == Machine(pr)
        next == nextQuoteProvider(pr.stage, pr.ret)
    IN IF next = "finish" THEN finishQuote(m, pr.ret)
       ELSE InvokeQuoteAdapter(m, next, r)

----------------------------------------------------------------------------
(* getHistoricalData *)

\* variant of getFinnhubHistorical: a method that exists and finds no data
getFinnhubHistoricalNoData == [threw |-> FALSE, value |-> None]

\* this.getFinnhubHistorical(symbol, period): the class defines no such method,
\* so the call throws a TypeError
getFinnhubHistorical == [threw |-> TRUE, value |-> None]

getHistoricalData(pr, period, interval, r) ==
    LET cacheKey == historicalKey(pr.symbol, period, interval)
        m == Machine(pr)
    IN IF isCacheValid(cache, cacheKey, longCacheTimeout, now)
       THEN Returned([m EXCEPT !.pr.hit = TRUE], Some(cache[cacheKey].data))
       ELSE InvokeHistoricalAdapter(m, r)

resumeHistorical(pr, period, interval, r) ==
    LET m == Machine(pr)
        second == getFinnhubHistorical
        threw == ~Truthy(pr.ret) /\ second.threw
        data == IF Truthy(pr.ret) THEN pr.ret ELSE second.value
    IN IF threw
       THEN Returned(m, Some(getFallbackHistoricalData(pr.symbol, r, now)))
       ELSE Returned(IF Truthy(data)
                     THEN [m EXCEPT !.cache =
                              cacheSet(@, historicalKey(pr.symbol, period, interval),
                                       data[1], now)]
                     ELSE m,
                     data)

----------------------------------------------------------------------------
(* getTechnicalIndicators *)

\* the for loop from indicator number idx on, up to the next await or the return
indicatorLoop(m, idx, r) ==
    IF idx <= Len(m.pr.indicators)
    THEN InvokeIndicatorAdapter([m EXCEPT !.pr.idx = idx], m.pr.indicators[idx], r)
    ELSE Returned(IF DOMAIN m.pr.results # {}
                  THEN [m EXCEPT !.cache =
                           cacheSet(@, indicatorsKey(m.pr.symbol, m.pr.indicators),
                                    m.pr.results, now)]
                  ELSE m,
                  Some(m.pr.results))

getTechnicalIndicators(pr, r) ==
    LET cacheKey == indicatorsKey(pr.symbol, pr.indicators)
        m == Machine(pr)
    IN IF isCacheValid(cache, cacheKey, longCacheTimeout, now)
       THEN Returned([m EXCEPT !.pr.hit = TRUE], Some(cache[cacheKey].data))
       ELSE indicatorLoop(m, 1, r)

\* faulty variant of resumeIndicators: the first indicator without data ends
\* the loop
resumeIndicatorsFailFast(pr, r) ==
    LET m == Machine(pr)
    IN IF Truthy(pr.ret)
       THEN indicatorLoop([m EXCEPT !.pr.results =
                              (pr.indicators[pr.idx] :> pr.ret[1]) @@ @],
                          pr.idx + 1, r)
       ELSE Returned(m, Some(pr.results))

resumeIndicators(pr, r) ==
    LET m == Machine(pr)
        indicator == pr.indicators[pr.idx]
        m1 == IF Truthy(pr.ret)
              THEN [m EXCEPT !.pr.results = (indicator :> pr.ret[1]) @@ @]
              ELSE m
    IN indicatorLoop(m1, pr.idx + 1, r)

----------------------------------------------------------------------------
(* Market clock.  An instant is the UTC weekday (0 = Sunday) and minute of *)
(* the day; offset is the number of minutes New York is behind UTC (300    *)
(* under EST, 240 under EDT).                                              *)

MinutesPerDay == 24 * 60
MinutesPerWeek == 7 * MinutesPerDay
ZoneOffsets == {240, 300}

\* new Date(date.toLocaleString("en-US", {timeZone: "America/New_York"})):
\* the New York wall clock of the instant
nyTime(instant, offset) ==
    LET m == (instant.day * MinutesPerDay + instant.minute - offset + MinutesPerWeek)
                 % MinutesPerWeek
    IN [day |-> m \div MinutesPerDay,
        hours |-> (m % MinutesPerDay) \div 60,
        minutes |-> m % 60]

\* faulty variant of isMarketOpen: the closing minute included
isMarketOpenInclusive(instant, offset) ==
    LET ny == nyTime(instant, offset)
        time == ny.hours * 100 + ny.minutes
    IN ny.day >= 1 /\ ny.day <= 5 /\ time >= 930 /\ time <= 1600

isMarketOpen(instant, offset) ==
    LET ny == nyTime(instant, offset)
        day == ny.day
        hour == ny.hours
        minute == ny.minutes
        time == hour * 100 + minute
    IN day >= 1 /\ day <= 5 /\ time >= 930 /\ time < 1600

\* updateStatus: the text of #market-status
statusText(instant, offset) ==
    IF isMarketOpen(instant, offset) THEN "OPEN" ELSE "CLOSED"

NextMinute(instant) ==
    LET m == (instant.day * MinutesPerDay + instant.minute + 1) % MinutesPerWeek
    IN [day |-> m \div MinutesPerDay, minute |-> m % MinutesPerDay]

----------------------------------------------------------------------------
(* Actions of the market-data manager *)

DefaultPeriod == "1D"
DefaultInterval == "5min"
\* half the rate limiter's interval, and each ttl less that
TickSteps == {Ms(500), cacheTimeout - Ms(500), longCacheTimeout - Ms(500)}
\* the credentials in force when the first request is made: those of the
\* constructor, or those a setApiKeys call at page load installed
InitialKeys ==
    { [av |-> "demo", fh |-> "demo", pg |-> "demo"],
      [av |-> "real", fh |-> "demo", pg |-> "demo"],
      [av |-> "real", fh |-> "real", pg |-> "real"] }
\* arguments of setApiKeys: "" is a key the argument leaves out
KeyArgs ==
    { [av |-> "real", fh |-> "", pg |-> ""],
      [av |-> "real", fh |-> "real", pg |-> "real"],
      [av |-> "", fh |-> "real", pg |-> "real"] }

Commit(p, m, begun) ==
    /\ proc' = [proc EXCEPT ![p] = m.pr]
    /\ lastApiCall' = m.last
    /\ fetchLog' = m.log
    /\ cache' = m.cache
    /\ nreq' = IF begun THEN nreq + 1 ELSE nreq
    /\ overlap' = IF begun
                  THEN overlap \cup {{proc[q].req, nreq + 1} :
                                        q \in {c \in Callers \ {p} : InFlight(proc[c])}}
                  ELSE overlap
    /\ UNCHANGED <<now, keys, nticks, clockVars, otherVars>>

\* a continuation is queued as a microtask: it runs before any timer or network
\* callback, and before the clock moves on
MicrotaskPending == \E c \in Callers : proc[c].pc = "resume"

CanBegin(p) == ~InFlight(proc[p]) /\ nreq < MaxReqs

QuoteRequest(p) ==
    /\ CanBegin(p)
    /\ \E symbol \in SymbolsOf(p), r \in RandomDraws :
          Commit(p, getRealTimeQuote(
                        NewRequest("quote", symbol, <<>>, quoteKey(symbol),
                                   cacheTimeout), r), TRUE)

HistoricalRequest(p) ==
    /\ CanBegin(p)
    /\ \E symbol \in SymbolsOf(p), r \in RandomDraws :
          Commit(p, getHistoricalData(
                        NewRequest("hist", symbol, <<>>,
                                   historicalKey(symbol, DefaultPeriod, DefaultInterval),
                                   longCacheTimeout),
                        DefaultPeriod, DefaultInterval, r), TRUE)

IndicatorRequest(p) ==
    /\ CanBegin(p)
    /\ \E symbol \in SymbolsOf(p), indicators \in IndicatorLists, r \in RandomDraws :
          Commit(p, getTechnicalIndicators(
                        NewRequest("ind", symbol, indicators,
                                   indicatorsKey(symbol, indicators),
                                   longCacheTimeout), r), TRUE)

\* the setTimeout of rateLimitDelay fires: record the call time, go on to the call
RateLimitWake(p) ==
    /\ proc[p].pc = "rlwait"
    /\ ~MicrotaskPending
    /\ now >= proc[p].wake
    /\ Commit(p, StartCall(Machine(proc[p]), proc[p].seen), FALSE)

Responses(pr) ==
    {Failure} \cup
    { Json(b) : b \in
        IF pr.kind = "quote"
        THEN (IF pr.stage = "av" THEN AlphaVantageQuoteBodies
              ELSE IF pr.stage = "fh" THEN FinnhubQuoteBodies
              ELSE PolygonQuoteBodies)
        ELSE IF pr.kind = "hist" THEN AlphaVantageHistoricalBodies
        ELSE IndicatorBodies(pr.stage) }

parseResponse(pr, resp) ==
    IF pr.kind = "quote"
    THEN (IF pr.stage = "av" THEN parseAlphaVantageQuote(pr.symbol, resp)
          ELSE IF pr.stage = "fh" THEN parseFinnhubQuote(pr.symbol, resp)
          ELSE parsePolygonQuote(pr.symbol, resp))
    ELSE IF pr.kind = "hist" THEN parseAlphaVantageHistorical(resp)
    ELSE parseAlphaVantageIndicator(pr.stage, resp)

Continue(pr, r) ==
    IF pr.kind = "quote" THEN resumeQuote(pr, r)
    ELSE IF pr.kind = "hist" THEN resumeHistorical(pr, DefaultPeriod, DefaultInterval, r)
    ELSE resumeIndicators(pr, r)

\* the fetch settles, the adapter runs to its return and the orchestrator that
\* awaited it continues, all in the microtasks of one task
\* the adapter calls that reach the network: adapter and symbol
ProbeCalls ==
    {[kind |-> "quote", stage |-> a, symbol |-> sym] :
        a \in {"av", "fh", "pg"}, sym \in Symbols}
    \cup {[kind |-> "hist", stage |-> "avh", symbol |-> sym] : sym \in Symbols}
    \cup {[kind |-> "ind", stage |-> i, symbol |-> sym] :
             i \in functionMap, sym \in Symbols}

\* what each adapter returns for each response it can get, worked out once
AdapterResults ==
    { <<call, { <<resp, parseResponse(call, resp)>> : resp \in Responses(call) }>> :
        call \in ProbeCalls }

adapterResult(pr, resp) ==
    LET call == [kind |-> pr.kind, stage |-> pr.stage, symbol |-> pr.symbol]
        ofCall == (CHOOSE e \in AdapterResults : e[1] = call)[2]
    IN (CHOOSE e \in ofCall : e[1] = resp)[2]

FetchSettles(p) ==
    /\ proc[p].pc = "fetch"
    /\ ~MicrotaskPending
    /\ \E resp \in Responses(proc[p]) :
          LET settled == Settled(Machine(proc[p]), adapterResult(proc[p], resp)).pr
          IN \E r \in RandomDraws : Commit(p, Continue(settled, r), FALSE)

\* the orchestrator continues after an adapter that returned without a network
\* call: a microtask, which runs after the synchronous code of the other callers
Resume(p) ==
    /\ proc[p].pc = "resume"
    /\ \E r \in RandomDraws : Commit(p, Continue(proc[p], r), FALSE)

setApiKeys(k) ==
    /\ nreq < MaxReqs
    /\ keys' = [av |-> IF k.av # "" THEN k.av ELSE keys.av,
                fh |-> IF k.fh # "" THEN k.fh ELSE keys.fh,
                pg |-> IF k.pg # "" THEN k.pg ELSE keys.pg]
    /\ nreq' = nreq + 1
    /\ UNCHANGED <<now, cache, lastApiCall, proc, fetchLog, nticks, overlap, clockVars,
                   otherVars>>

\* time passes; a network call or a timer stays pending for less than a minute.
\* The clock is followed while a request is in flight or can still begin.
Tick(delta) ==
    /\ nticks < MaxTicks
    /\ nreq < MaxReqs \/ \E c \in Callers : InFlight(proc[c])
    /\ ~MicrotaskPending
    /\ delta > minApiInterval => \A c \in Callers : ~InFlight(proc[c])
    /\ now' = now + delta
    /\ nticks' = nticks + 1
    /\ UNCHANGED <<keys, cache, lastApiCall, proc, fetchLog, nreq, overlap, clockVars,
                   otherVars>>

NoProbe ==
    [call |-> [kind |-> "none", stage |-> "none", symbol |-> ""],
     resp |-> Failure, out |-> None]

\* api_config.js as shipped: every provider key is 'demo'
DefaultConfig ==
    [keys |-> [ALPHA_VANTAGE |-> "demo", FINNHUB |-> "demo", POLYGON |-> "demo",
               YAHOO_FINANCE |-> "demo", IEX_CLOUD |-> "demo"],
     report |-> None]

NoChat ==
    [constructed |-> FALSE, isLocal |-> FALSE, indicator |-> "none", disabled |-> FALSE,
     draft |-> <<>>, clicks |-> 0, calls |-> <<>>, messages |-> <<>>]

NoTicker ==
    [constructed |-> FALSE, updateInterval |-> FALSE, destroyed |-> FALSE,
     born |-> [day |-> 0, minute |-> 0], latency |-> 0,
     nextFast |-> 0, nextSlow |-> 0, ticks |-> <<>>, cycles |-> <<>>]

Init ==
    /\ probe = NoProbe
    /\ ticker = NoTicker
    /\ config = DefaultConfig
    /\ chat = NoChat
    /\ now = StartTime
    /\ keys \in InitialKeys
    /\ cache = EmptyObj
    /\ lastApiCall = 0
    /\ proc = [p \in Callers |-> IdleProc]
    /\ fetchLog = <<>>
    /\ nreq = 0
    /\ nticks = 0
    /\ overlap = {}
    /\ clock = [instant |-> [day |-> 0, minute |-> 0], offset |-> 300]
    /\ marketStatus = statusText(clock.instant, clock.offset)

\* two callers share the manager and request quotes
Next ==
    \/ \E p \in Callers : QuoteRequest(p)
    \/ \E p \in Callers : RateLimitWake(p)
    \/ \E p \in Callers : FetchSettles(p)
    \/ \E p \in Callers : Resume(p)
    \/ \E k \in KeyArgs : setApiKeys(k)
    \/ \E delta \in TickSteps : Tick(delta)

Spec == Init /\ [][Next]_vars

\* one caller requests every kind of data, one request after the other
DataNext ==
    \/ QuoteRequest("direct")
    \/ HistoricalRequest("direct")
    \/ IndicatorRequest("direct")
    \/ RateLimitWake("direct")
    \/ FetchSettles("direct")
    \/ Resume("direct")
    \/ \E delta \in TickSteps : Tick(delta)

DataSpec == Init /\ [][DataNext]_vars

----------------------------------------------------------------------------
(* The market clock on its own: updateMarketStatus runs updateStatus at    *)
(* construction and then once a minute.                                    *)

ClockInit ==
    /\ probe = NoProbe
    /\ ticker = NoTicker
    /\ config = DefaultConfig
    /\ chat = NoChat
    /\ now = StartTime
    /\ keys \in InitialKeys
    /\ cache = EmptyObj
    /\ lastApiCall = 0
    /\ proc = [p \in Callers |-> IdleProc]
    /\ fetchLog = <<>>
    /\ nreq = 0
    /\ nticks = 0
    /\ overlap = {}
    /\ \E offset \in ZoneOffsets :
          clock = [instant |-> [day |-> 0, minute |-> 0], offset |-> offset]
    /\ marketStatus = statusText(clock.instant, clock.offset)

updateStatus ==
    /\ clock' = [clock EXCEPT !.instant = NextMinute(@)]
    /\ marketStatus' = statusText(clock'.instant, clock'.offset)
    /\ UNCHANGED <<mdmVars, otherVars>>

ClockNext == updateStatus

ClockSpec == ClockInit /\ [][ClockNext]_vars

----------------------------------------------------------------------------
(* One adapter call on its own, from its fetch on: the adapter, its        *)
(* symbol, the response the network gives it, and how its promise settles  *)
(* (threw = rejected).                                                     *)

\* the adapter's try block and its catch
adapterPromise(call, resp) ==
    adapterCatch(
        IF call.kind = "quote"
        THEN (IF call.stage = "av" THEN tryAlphaVantageQuote(call.symbol, resp)
              ELSE IF call.stage = "fh" THEN tryFinnhubQuote(call.symbol, resp)
              ELSE tryPolygonQuote(call.symbol, resp))
        ELSE IF call.kind = "hist" THEN tryAlphaVantageHistorical(resp)
        ELSE tryAlphaVantageIndicator(call.stage, resp))

AdapterInit ==
    /\ \E call \in ProbeCalls : \E resp \in Responses(call) :
          probe = [call |-> call, resp |-> resp, out |-> None]
    /\ ticker = NoTicker
    /\ config = DefaultConfig
    /\ chat = NoChat
    /\ now = StartTime
    /\ keys = [av |-> "real", fh |-> "real", pg |-> "real"]
    /\ cache = EmptyObj
    /\ lastApiCall = 0
    /\ proc = [p \in Callers |-> IdleProc]
    /\ fetchLog = <<>>
    /\ nreq = 0
    /\ nticks = 0
    /\ overlap = {}
    /\ clock = [instant |-> [day |-> 0, minute |-> 0], offset |-> 300]
    /\ marketStatus = statusText(clock.instant, clock.offset)

\* the fetch settles and the adapter runs to its end
adapterSettles ==
    /\ probe.out = None
    /\ probe' = [probe EXCEPT !.out = Some(adapterPromise(probe.call, probe.resp))]
    /\ UNCHANGED <<mdmVars, clockVars, ticker, pageVars>>

AdapterNext == adapterSettles

AdapterSpec == AdapterInit /\ [][AdapterNext]_vars

----------------------------------------------------------------------------
(* The ticker (EnhancedMarketTicker): its two interval timers, the refresh *)
(* cycles they start and destroy().  A getRealTimeQuote call of a cycle is *)
(* a call on the manager's cache: a valid entry is returned at once, and   *)
(* otherwise the quote comes back after the run's latency (none without an *)
(* Alpha Vantage key, when no request leaves) and is stored.  Time moves   *)
(* from one due timer or pending return to the next.  The page may install *)
(* an Alpha Vantage key, once, while the ticker runs.                      *)

tickerSymbols == <<"IXIC", "SPX", "DJI", "GLD", "BTC-USD", "ETH-USD">>

fastPeriod == Ms(30000)
slowPeriod == Ms(300000)
refreshPause == Ms(200)
OneMinute == Ms(60000)
\* how long a quote call of the ticker stays pending: not at all, or long
\* enough for a cycle to outlast the 30 seconds to the next tick
Latencies == {0, Ms(6000)}
\* construction at New York Monday 09:28, Monday 15:58 and Saturday 10:00 (EST)
TickerBirths ==
    { [day |-> 1, minute |-> 868], [day |-> 1, minute |-> 1258],
      [day |-> 6, minute |-> 900] }
\* the timers are followed for MaxPeriods periods of the 30-second interval
Horizon == StartTime + MaxPeriods * fastPeriod

MinutesLater(instant, n) ==
    LET m == (instant.day * MinutesPerDay + instant.minute + n) % MinutesPerWeek
    IN [day |-> m \div MinutesPerDay, minute |-> m % MinutesPerDay]

\* variant of slowCondition: the 5-minute callback refreshes whatever the market
slowConditionAlways(open) == TRUE

\* if (window.marketDataManager && window.marketDataManager.isMarketOpen())
fastCondition(open) == open
\* if (window.marketDataManager && !window.marketDataManager.isMarketOpen())
slowCondition(open) == ~open

\* the keys of the manager the ticker runs on: none, or one for Alpha Vantage
TickerKeys ==
    { [av |-> "demo", fh |-> "demo", pg |-> "demo"],
      [av |-> "K", fh |-> "demo", pg |-> "demo"] }

\* what getRealTimeQuote obtains on a miss: Alpha Vantage's answer, or the
\* synthetic quote when every key is 'demo'
managerQuote(symbol) ==
    IF keys.av = "demo"
    THEN getFallbackQuote(symbol, CHOOSE r \in RandomDraws : r.d > 0, now)
    ELSE parseAlphaVantageQuote(symbol,
             Json(CHOOSE b \in AlphaVantageQuoteBodies :
                      Truthy(b.gq) /\ b.gq[1].changePercent # None))[1]

\* updateSymbolData(symbol): the getRealTimeQuote call goes out; a valid cache
\* entry is what it returns
issueQuote(t, cycle, idx) ==
    LET key == quoteKey(tickerSymbols[idx])
        hit == isCacheValid(cache, key, cacheTimeout, now)
    IN [cycle EXCEPT
           !.idx = idx, !.pc = "quote",
           !.due = IF hit \/ keys.av = "demo" THEN now ELSE now + t.latency,
           !.issued = Append(@, [symbol |-> tickerSymbols[idx], at |-> now,
                                 back |-> None, hit |-> hit,
                                 fetched |-> IF hit THEN Some(cache[key].timestamp)
                                             ELSE None])]

\* updateAllData() up to its first await
updateAllData(t, origin) ==
    [t EXCEPT !.cycles =
        Append(@, issueQuote(t, [origin |-> origin, at |-> now,
                                 afterDestroy |-> t.destroyed, idx |-> 0,
                                 pc |-> "start", due |-> 0, issued |-> <<>>], 1))]

\* new EnhancedMarketTicker(): startDataUpdates
TickerInit ==
    /\ probe = NoProbe
    /\ config = DefaultConfig
    /\ chat = NoChat
    /\ now = StartTime
    /\ keys \in TickerKeys
    /\ cache = EmptyObj
    /\ lastApiCall = 0
    /\ proc = [p \in Callers |-> IdleProc]
    /\ fetchLog = <<>>
    /\ nreq = 0
    /\ nticks = 0
    /\ overlap = {}
    /\ \E born \in TickerBirths : \E latency \in Latencies :
          /\ clock = [instant |-> born, offset |-> 300]
          /\ ticker = updateAllData(
                          [constructed |-> TRUE, updateInterval |-> TRUE,
                           destroyed |-> FALSE, born |-> born, latency |-> latency,
                           nextFast |-> StartTime + fastPeriod,
                           nextSlow |-> StartTime + slowPeriod,
                           ticks |-> <<>>, cycles |-> <<>>],
                          "load")
    /\ marketStatus = statusText(clock.instant, clock.offset)

TickerUnchangedButCache ==
    UNCHANGED <<now, keys, lastApiCall, proc, fetchLog, nreq, nticks, overlap,
                clockVars, probe, pageVars>>

TickerUnchanged == TickerUnchangedButCache /\ UNCHANGED cache

\* the callback of the 30-second interval, kept in this.updateInterval
fastTick ==
    /\ ticker.updateInterval
    /\ ticker.nextFast <= now
    /\ ticker.nextFast <= Horizon
    /\ LET t == [ticker EXCEPT !.nextFast = @ + fastPeriod,
                                !.ticks = Append(@, [timer |-> "fast", at |-> now])]
       IN ticker' = IF fastCondition(isMarketOpen(clock.instant, clock.offset))
                    THEN updateAllData(t, "fast")
                    ELSE t
    /\ TickerUnchanged

\* the callback of the 5-minute interval, whose handle is not kept
slowTick ==
    /\ ticker.constructed
    /\ ticker.nextSlow <= now
    /\ ticker.nextSlow <= Horizon
    /\ LET t == [ticker EXCEPT !.nextSlow = @ + slowPeriod,
                                !.ticks = Append(@, [timer |-> "slow", at |-> now])]
       IN ticker' = IF slowCondition(isMarketOpen(clock.instant, clock.offset))
                    THEN updateAllData(t, "slow")
                    ELSE t
    /\ TickerUnchanged

\* await this.updateSymbolData(symbol) resumes: a fetched quote has been stored
\* by getRealTimeQuote, the quote is displayed and the 200 ms timeout is set
quoteReturns(c) ==
    /\ ticker.cycles[c].pc = "quote"
    /\ ticker.cycles[c].due <= now
    /\ LET idx == ticker.cycles[c].idx
           call == ticker.cycles[c].issued[idx]
       IN /\ ticker' = [ticker EXCEPT
                           !.cycles[c].issued[idx].back = Some(now),
                           !.cycles[c].issued[idx].fetched =
                               IF call.hit THEN @ ELSE Some(now),
                           !.cycles[c].pc = "pause",
                           !.cycles[c].due = now + refreshPause]
          /\ cache' = IF call.hit THEN cache
                      ELSE cacheSet(cache, quoteKey(call.symbol),
                                    managerQuote(call.symbol), now)
    /\ TickerUnchangedButCache

\* the timeout fires: the loop goes to the next symbol, or ends
pauseEnds(c) ==
    /\ ticker.cycles[c].pc = "pause"
    /\ ticker.cycles[c].due <= now
    /\ LET cycle == ticker.cycles[c]
       IN ticker' = [ticker EXCEPT !.cycles[c] =
                        IF cycle.idx < Len(tickerSymbols)
                        THEN issueQuote(ticker, cycle, cycle.idx + 1)
                        ELSE [cycle EXCEPT !.pc = "finished"]]
    /\ TickerUnchanged

\* destroy(): clearInterval(this.updateInterval)
destroy ==
    /\ ticker.constructed
    /\ ~ticker.destroyed
    /\ ticker' = [ticker EXCEPT !.destroyed = TRUE, !.updateInterval = FALSE]
    /\ TickerUnchanged

\* the times at which a timer or a pending await of a cycle is due
DueTimes ==
    {ticker.cycles[c].due :
        c \in {i \in 1..Len(ticker.cycles) : ticker.cycles[i].pc # "finished"}}
    \cup (IF ticker.updateInterval /\ ticker.nextFast <= Horizon
          THEN {ticker.nextFast} ELSE {})
    \cup (IF ticker.constructed /\ ticker.nextSlow <= Horizon
          THEN {ticker.nextSlow} ELSE {})

\* nothing is due: time passes to the next due time, the market clock with it
Advance ==
    /\ DueTimes # {}
    /\ \A due \in DueTimes : due > now
    /\ now' = CHOOSE due \in DueTimes : \A other \in DueTimes : due <= other
    /\ clock' = [clock EXCEPT
                    !.instant = MinutesLater(ticker.born,
                                             (now' - StartTime) \div OneMinute)]
    /\ marketStatus' = statusText(clock'.instant, clock'.offset)
    /\ UNCHANGED <<keys, cache, lastApiCall, proc, fetchLog, nreq, nticks, overlap,
                   otherVars>>

TickerNext ==
    \/ fastTick
    \/ slowTick
    \/ \E c \in 1..Len(ticker.cycles) : quoteReturns(c)
    \/ \E c \in 1..Len(ticker.cycles) : pauseEnds(c)
    \/ destroy
    \/ keys.av = "demo" /\ \E k \in KeyArgs : k.fh = "" /\ setApiKeys(k)
    \/ Advance

TickerSpec == TickerInit /\ [][TickerNext]_vars

----------------------------------------------------------------------------
(* api_config.js beside the manager: API_CONFIG holds a key per provider,  *)
(* initializeAPIConfig runs at DOMContentLoaded, and the manager is the    *)
(* one its own script constructs.                                          *)

\* the keys a user has written into API_CONFIG
ConfigKeys ==
    { DefaultConfig.keys,
      [DefaultConfig.keys EXCEPT !.ALPHA_VANTAGE = "real"],
      [DefaultConfig.keys EXCEPT !.ALPHA_VANTAGE = "real", !.FINNHUB = "real",
                                 !.POLYGON = "real"],
      [DefaultConfig.keys EXCEPT !.IEX_CLOUD = "real"] }

ConfigInit ==
    /\ probe = NoProbe
    /\ ticker = NoTicker
    /\ chat = NoChat
    /\ \E k \in ConfigKeys : config = [keys |-> k, report |-> None]
    /\ now = StartTime
    /\ keys = [av |-> "demo", fh |-> "demo", pg |-> "demo"]
    /\ cache = EmptyObj
    /\ lastApiCall = 0
    /\ proc = [p \in Callers |-> IdleProc]
    /\ fetchLog = <<>>
    /\ nreq = 0
    /\ nticks = 0
    /\ overlap = {}
    /\ clock = [instant |-> [day |-> 0, minute |-> 0], offset |-> 300]
    /\ marketStatus = statusText(clock.instant, clock.offset)

\* Object.values(API_CONFIG).every(config => config.key === 'demo')
isDemoMode(k) == \A provider \in DOMAIN k : k[provider] = "demo"

initializeAPIConfig ==
    /\ config.report = None
    /\ config' = [config EXCEPT !.report = Some(isDemoMode(config.keys))]
    /\ UNCHANGED <<mdmVars, clockVars, probe, ticker, chat>>

ConfigNext ==
    \/ initializeAPIConfig
    \/ QuoteRequest("direct")
    \/ RateLimitWake("direct")
    \/ FetchSettles("direct")
    \/ Resume("direct")
    \/ \E k \in KeyArgs : setApiKeys(k)
    \/ \E delta \in TickSteps : Tick(delta)

ConfigSpec == ConfigInit /\ [][ConfigNext]_vars

----------------------------------------------------------------------------
(* The chat client (LiveTraderAPI) and the chat window: queryAI posts the  *)
(* query, sendMessage and testConnection await it.  A call is followed     *)
(* from its entry to the settling of its fetch; what follows the fetch     *)
(* (response.json(), the catch, the caller's continuation) runs as         *)
(* microtasks with nothing of the page in between.                         *)

\* what the POST comes to: fetch rejects; a non-2xx status; a 2xx body that is
\* not JSON; a 2xx JSON body without a response field; a 2xx body with one
BackendAnswers == {"transport", "status", "nonjson", "noresponse", "reply"}

\* variant of showLoading: the indicator is shown and never hidden
showLoadingOnly(ch, show) ==
    IF show THEN [ch EXCEPT !.indicator = "block", !.disabled = TRUE] ELSE ch

showLoading(ch, show) ==
    [ch EXCEPT !.indicator = IF show THEN "block" ELSE "none", !.disabled = show]

\* queryAI up to `await fetch(...)`
queryAIEnter(ch, origin) ==
    LET shown == showLoading(ch, TRUE)
    IN [shown EXCEPT !.calls = Append(@, [origin |-> origin, pc |-> "fetch",
                                          fetches |-> 1, answer |-> None,
                                          result |-> "pending", connected |-> None])]

\* what the user may have in #chat-input: blanks only, or a text with blanks
\* around it
Drafts == { <<" ", " ">>, <<"\n">>, <<" ", "h", "i", " ", "\n">> }

IsSpace(c) == c \in {" ", "\t", "\n"}

\* faulty variant of trim: the value is taken as it is
trimNone(s) == s

\* String.prototype.trim: the blanks at both ends are dropped
trim(s) ==
    LET kept == {i \in 1..Len(s) : ~IsSpace(s[i])}
    IN IF kept = {} THEN <<>>
       ELSE SubSeq(s, CHOOSE i \in kept : \A j \in kept : i <= j,
                      CHOOSE i \in kept : \A j \in kept : i >= j)

\* the try block of queryAI after the fetch: does it throw
queryAIThrows(answer) == answer # "reply"

\* queryAI from the settling of the fetch to its return or throw
queryAISettle(ch, c, answer) ==
    LET afterTry == IF answer \in {"noresponse", "reply"}
                    THEN showLoading(ch, FALSE)      \* line 46
                    ELSE ch
        afterCatch == IF queryAIThrows(answer)
                      THEN showLoading(afterTry, FALSE)   \* line 55
                      ELSE afterTry
        result == IF ~queryAIThrows(answer) THEN "reply"
                  ELSE IF ch.isLocal THEN "fallback"
                  ELSE "threw"
    IN [afterCatch EXCEPT !.calls[c].pc = "done", !.calls[c].answer = Some(answer),
                          !.calls[c].result = result]

\* sendMessage after `await liveTraderAPI.queryAI(message)`
sendMessageResume(ch, c) ==
    [ch EXCEPT !.messages =
        Append(@, [sender |-> "ai", call |-> c,
                   text |-> IF ch.calls[c].result = "threw" THEN "error"
                            ELSE ch.calls[c].result])]

\* testConnection after `await this.queryAI(testQuery)`
testConnectionResume(ch, c) ==
    [ch EXCEPT !.calls[c].connected = Some(ch.calls[c].result # "threw")]

ChatInit ==
    /\ probe = NoProbe
    /\ ticker = NoTicker
    /\ config = DefaultConfig
    /\ \E isLocal \in BOOLEAN :
          chat = [constructed |-> TRUE, isLocal |-> isLocal, indicator |-> "none",
                  disabled |-> FALSE, draft |-> <<>>, clicks |-> 0,
                  calls |-> <<>>, messages |-> <<>>]
    /\ now = StartTime
    /\ keys = [av |-> "demo", fh |-> "demo", pg |-> "demo"]
    /\ cache = EmptyObj
    /\ lastApiCall = 0
    /\ proc = [p \in Callers |-> IdleProc]
    /\ fetchLog = <<>>
    /\ nreq = 0
    /\ nticks = 0
    /\ overlap = {}
    /\ clock = [instant |-> [day |-> 0, minute |-> 0], offset |-> 300]
    /\ marketStatus = statusText(clock.instant, clock.offset)

ChatUnchanged == UNCHANGED <<mdmVars, clockVars, probe, ticker, config>>

\* the user types into #chat-input, which is possible while it is enabled
typeDraft ==
    /\ chat.constructed
    /\ ~chat.disabled
    /\ \E text \in Drafts :
          /\ text # chat.draft
          /\ chat' = [chat EXCEPT !.draft = text]
    /\ ChatUnchanged

\* the welcome message of enhanceChatInterface, one second after page load
welcome ==
    /\ chat.constructed
    /\ \A i \in 1..Len(chat.messages) : chat.messages[i].text # "welcome"
    /\ chat' = [chat EXCEPT !.messages =
                    Append(@, [sender |-> "ai", call |-> 0, text |-> "welcome"])]
    /\ ChatUnchanged

\* click on #send-button or Enter: sendMessage up to its return or its await;
\* clicks counts the calls of sendMessage
sendMessage ==
    /\ chat.constructed
    /\ chat.clicks < MaxReqs
    /\ LET message == trim(chat.draft)
           c == Len(chat.calls) + 1
           clicked == [chat EXCEPT !.clicks = @ + 1]
           sent == [clicked EXCEPT
                       !.draft = <<>>,
                       !.messages = Append(@, [sender |-> "user", call |-> c,
                                               text |-> "query", body |-> message])]
       IN IF message = <<>>
          THEN chat' = clicked
          ELSE /\ Len(chat.calls) < MaxReqs
               /\ chat' = queryAIEnter(sent, "send")
    /\ ChatUnchanged

\* testConnection up to its await
testConnection ==
    /\ chat.constructed
    /\ Len(chat.calls) < MaxReqs
    /\ chat' = queryAIEnter(chat, "test")
    /\ ChatUnchanged

updateApiUrl ==
    /\ chat.constructed
    /\ chat.isLocal
    /\ chat' = [chat EXCEPT !.isLocal = FALSE]
    /\ ChatUnchanged

\* the fetch of call c settles; queryAI and its caller run to their ends
backendAnswers(c, answer) ==
    /\ chat.calls[c].pc = "fetch"
    /\ LET settled == queryAISettle(chat, c, answer)
       IN chat' = IF chat.calls[c].origin = "send"
                  THEN sendMessageResume(settled, c)
                  ELSE testConnectionResume(settled, c)
    /\ ChatUnchanged

ChatNext ==
    \/ typeDraft
    \/ welcome
    \/ sendMessage
    \/ testConnection
    \/ updateApiUrl
    \/ \E c \in 1..Len(chat.calls) : \E answer \in BackendAnswers :
          backendAnswers(c, answer)

ChatSpec == ChatInit /\ [][ChatNext]_vars

----------------------------------------------------------------------------
(* Properties *)

KeyOf(pr) ==
    IF pr.kind = "quote" THEN quoteKey(pr.symbol)
    ELSE IF pr.kind = "hist" THEN historicalKey(pr.symbol, DefaultPeriod, DefaultInterval)
    ELSE indicatorsKey(pr.symbol, pr.indicators)

DoneWith(p, kind) == proc[p].pc = "done" /\ proc[p].kind = kind

AllNoData(calls) == \A i \in 1..Len(calls) : calls[i].outcome = "nodata"

\* C1: every getRealTimeQuote call resolves to a quote, never to null; when every
\* provider adapter it tried yielded no data, the quote's source is 'Demo Data'.
C1_QuoteNeverNull ==
    \A p \in Callers :
        DoneWith(p, "quote") =>
            /\ Truthy(proc[p].ret)
            /\ (~proc[p].hit /\ AllNoData(proc[p].calls)) =>
                   proc[p].ret[1].source = "Demo Data"

\* C2: every getHistoricalData call resolves to a series, never to null, whatever
\* the credentials and whatever the primary provider answered.
C2_HistoricalNeverNull ==
    \A p \in Callers : DoneWith(p, "hist") => Truthy(proc[p].ret)

\* C2 witness: the primary historical provider was called over the network and
\* yielded no data, and the call returned a series.
C2_Witness ==
    \E p \in Callers :
        /\ DoneWith(p, "hist")
        /\ keys.av = "real"
        /\ proc[p].calls = <<[adapter |-> "avh", outcome |-> "nodata"]>>
        /\ Truthy(proc[p].ret)
        /\ Len(proc[p].ret[1]) = 101

\* C3: a call that finds an entry younger than the ttl under its key returns that
\* entry's stored value, invokes no provider adapter and starts no network call.
C3_CacheRoundTrip ==
    \A p \in Callers :
        (proc[p].pc # "idle" /\ proc[p].entry = "fresh") =>
            /\ proc[p].pc = "done"
            /\ proc[p].hit
            /\ proc[p].calls = <<>>
            /\ KeyOf(proc[p]) \in DOMAIN cache
            /\ proc[p].ret = Some(cache[KeyOf(proc[p])].data)
            /\ \A i \in 1..Len(fetchLog) : fetchLog[i].req # proc[p].req

\* C3 witness: a historical series was fetched over the network and cached, time
\* passed, and a second call got it from the cache.
C3_Witness ==
    /\ DoneWith("direct", "hist")
    /\ proc["direct"].hit
    /\ proc["direct"].entry = "fresh"
    /\ now - cache[KeyOf(proc["direct"])].timestamp = longCacheTimeout - Ms(500)
    /\ Len(fetchLog) = 1

ProviderOrder == <<"av", "fh", "pg">>

\* C5: quote providers are tried in the order Alpha Vantage, Finnhub, Polygon; no
\* provider is invoked after one that yielded data; when the first yields no data
\* and the second succeeds, the quote's source is 'Finnhub' and Polygon is not
\* invoked.
C5_FallbackOrder ==
    \A p \in Callers :
        proc[p].kind = "quote" =>
            LET calls == proc[p].calls
            IN /\ Len(calls) <= 3
               /\ \A i \in 1..Len(calls) : calls[i].adapter = ProviderOrder[i]
               /\ \A i \in 1..(Len(calls) - 1) : calls[i].outcome = "nodata"
               /\ (proc[p].pc = "done" /\ Len(calls) >= 2 /\ calls[2].outcome = "data") =>
                      /\ Len(calls) = 2
                      /\ Truthy(proc[p].ret)
                      /\ proc[p].ret[1].source = "Finnhub"

\* C5 witness: Alpha Vantage was asked over the network and had no data, Finnhub
\* answered, and the call returned Finnhub's quote.
C5_Witness ==
    \E p \in Callers :
        /\ DoneWith(p, "quote")
        /\ proc[p].calls = <<[adapter |-> "av", outcome |-> "nodata"],
                             [adapter |-> "fh", outcome |-> "data"]>>
        /\ proc[p].ret[1].source = "Finnhub"
        /\ \E i \in 1..Len(fetchLog) : fetchLog[i].req = proc[p].req

NonOverlapping(a, b) == a = b \/ {a, b} \notin overlap

\* C6: of two provider network calls made by the same request or by requests
\* that did not overlap, the later starts at least minApiInterval (1000 ms) after
\* the earlier; and rateLimitDelay leaves the start time of the latest call in
\* lastApiCall.
C6_RateLimitSequential ==
    /\ minApiInterval = Ms(1000)
    /\ \A i, j \in 1..Len(fetchLog) :
          (i < j /\ NonOverlapping(fetchLog[i].req, fetchLog[j].req)) =>
              fetchLog[j].t - fetchLog[i].t >= minApiInterval
    /\ fetchLog # <<>> => lastApiCall = fetchLog[Len(fetchLog)].t

\* C6 witness: a second request, begun after the first had returned and less
\* than the interval after its call, slept and made its call exactly one
\* interval after the first.
C6_Witness ==
    /\ Len(fetchLog) = 2
    /\ fetchLog[1].req # fetchLog[2].req
    /\ NonOverlapping(fetchLog[1].req, fetchLog[2].req)
    /\ fetchLog[2].seen = fetchLog[1].t
    /\ fetchLog[2].t - fetchLog[1].t = minApiInterval

\* C7: also when requests overlap, no two provider calls pass the lastApiCall
\* check against the same recorded value, and no two calls to the same provider
\* start less than minApiInterval apart.
C7_RateLimitConcurrent ==
    \A i, j \in 1..Len(fetchLog) :
        i < j =>
            /\ fetchLog[i].seen # fetchLog[j].seen
            /\ fetchLog[i].adapter = fetchLog[j].adapter =>
                   fetchLog[j].t - fetchLog[i].t >= minApiInterval

IsDescending(series) ==
    \A i, j \in 1..Len(series) : i < j => series[i].timestamp >= series[j].timestamp

\* C8: every series of a getTechnicalIndicators result is sorted descending by
\* timestamp and has at most 100 entries.
C8_IndicatorOrdering ==
    \A p \in Callers :
        DoneWith(p, "ind") =>
            \A name \in DOMAIN proc[p].ret[1] :
                /\ IsDescending(proc[p].ret[1][name])
                /\ Len(proc[p].ret[1][name]) <= 100

\* C9: the market status shown is OPEN exactly when the New York wall clock
\* reads Monday to Friday and a time of day in [09:30, 16:00); so it is OPEN at
\* Wednesday 10:00 and at 09:30, CLOSED at Saturday 10:00, Wednesday 17:00, 09:29
\* and 16:00.
C9_MarketClock ==
    LET ny == nyTime(clock.instant, clock.offset)
        minuteOfDay == ny.hours * 60 + ny.minutes
        weekday == ny.day \in 1..5
        open == marketStatus = "OPEN"
    IN /\ marketStatus \in {"OPEN", "CLOSED"}
       /\ open <=> (weekday /\ minuteOfDay >= 9 * 60 + 30 /\ minuteOfDay < 16 * 60)
       /\ (ny.day = 3 /\ minuteOfDay = 10 * 60) => open
       /\ (weekday /\ minuteOfDay = 9 * 60 + 30) => open
       /\ (ny.day = 6 /\ minuteOfDay = 10 * 60) => ~open
       /\ (ny.day = 3 /\ minuteOfDay = 17 * 60) => ~open
       /\ minuteOfDay = 9 * 60 + 29 => ~open
       /\ minuteOfDay = 16 * 60 => ~open

\* C9 witness: it is 09:30 on a Wednesday in New York under daylight time, and
\* the status reads OPEN.
C9_Witness ==
    /\ clock.offset = 240
    /\ nyTime(clock.instant, clock.offset) = [day |-> 3, hours |-> 9, minutes |-> 30]
    /\ marketStatus = "OPEN"

\* C10: every quote getRealTimeQuote returns has
\* changePercent = change / previousClose * 100.
C10_ChangePercent ==
    \A p \in Callers :
        (DoneWith(p, "quote") /\ Truthy(proc[p].ret)) =>
            LET q == proc[p].ret[1]
            IN /\ q.changePercent.den # 0
               /\ q.previousClose # 0
               /\ q.changePercent.num * q.previousClose
                      = q.change * 100 * q.changePercent.den

\* the credential an adapter uses: Alpha Vantage's for the historical and the
\* indicator adapter
KeyOfAdapter(adapter) == IF adapter \in {"fh", "pg"} THEN keys[adapter] ELSE keys.av

AllDemo == keys = [av |-> "demo", fh |-> "demo", pg |-> "demo"]

\* C11: an adapter whose key is 'demo' starts no network call and leaves the rate
\* limiter alone; Finnhub and Polygon then return null and the Alpha Vantage
\* adapters (quote, historical, indicator) return synthetic data; with all keys
\* 'demo' no fetch ever happens and every quote has source 'Demo Data'.
C11_DemoShortCircuit ==
    /\ [](/\ \A i \in 1..Len(fetchLog) : KeyOfAdapter(fetchLog[i].adapter) # "demo"
          /\ \A p \in Callers : \A i \in 1..Len(proc[p].calls) :
                 LET call == proc[p].calls[i]
                 IN KeyOfAdapter(call.adapter) = "demo" =>
                        call.outcome = IF call.adapter \in {"fh", "pg"}
                                       THEN "nodata" ELSE "data"
          /\ AllDemo =>
                 /\ fetchLog = <<>>
                 /\ lastApiCall = 0
                 /\ \A p \in Callers :
                        DoneWith(p, "quote") =>
                            /\ Truthy(proc[p].ret)
                            /\ proc[p].ret[1].source = "Demo Data")
    /\ [][\A p \in Callers :
             LET calls == proc'[p].calls
             IN (calls # proc[p].calls /\ calls # <<>>
                 /\ KeyOfAdapter(calls[Len(calls)].adapter) = "demo") =>
                    (lastApiCall' = lastApiCall /\ fetchLog' = fetchLog)]_vars

\* C11 witness: with only the Alpha Vantage key configured, a quote request
\* invoked all three adapters and exactly one network call was made.
C11_Witness ==
    /\ keys = [av |-> "real", fh |-> "demo", pg |-> "demo"]
    /\ DoneWith("direct", "quote")
    /\ proc["direct"].calls = <<[adapter |-> "av", outcome |-> "nodata"],
                                [adapter |-> "fh", outcome |-> "nodata"],
                                [adapter |-> "pg", outcome |-> "nodata"]>>
    /\ Len(fetchLog) = 1
    /\ fetchLog[1].adapter = "av"

\* the body has none of the fields the adapter reads its result from
LacksFields(call, resp) ==
    /\ resp.kind = "json"
    /\ IF call.kind = "quote"
       THEN (IF call.stage = "av"
             THEN ~Truthy(resp.body.gq) \/ resp.body.gq[1].changePercent = None
             ELSE IF call.stage = "fh" THEN resp.body.c = 0
             ELSE ~Truthy(resp.body.results) \/ resp.body.results[1] = <<>>)
       ELSE IF call.kind = "hist" THEN ~Truthy(resp.body.series)
       ELSE ~Truthy(resp.body.ta)

\* C12: whatever the network gives a provider adapter, its promise resolves; a
\* transport or JSON failure and a body without the expected fields resolve to
\* null; and after a null from Alpha Vantage or Finnhub the orchestrator goes
\* on to the next quote provider.
C12_AdapterFailure ==
    probe.out # None =>
        LET out == probe.out[1]
            stage == probe.call.stage
        IN /\ ~out.threw
           /\ (probe.resp.kind = "error" \/ LacksFields(probe.call, probe.resp)) =>
                  out.value = None
           /\ (out.value = None /\ stage = "av") =>
                  nextQuoteProvider(stage, out.value) = "fh"
           /\ (out.value = None /\ stage = "fh") =>
                  nextQuoteProvider(stage, out.value) = "pg"

\* C12 witness: the Finnhub request failed and the adapter resolved to null.
C12_Witness ==
    /\ probe.call.stage = "fh"
    /\ probe.resp = Failure
    /\ probe.out = Some(Normal(None))

GotData(pr) == \E i \in 1..Len(pr.calls) : pr.calls[i].outcome = "data"

\* C13: when a request missed the cache and one of its adapters gave data, then
\* at its return the cache maps the request's key to exactly the returned value,
\* inserted no later than now.
C13_CacheWriteBack ==
    \A p \in Callers :
        (proc[p].pc = "done" /\ ~proc[p].hit /\ GotData(proc[p])) =>
            /\ KeyOf(proc[p]) \in DOMAIN cache
            /\ proc[p].ret = Some(cache[KeyOf(proc[p])].data)
            /\ cache[KeyOf(proc[p])].timestamp <= now

\* C13 witness: a historical request that fetched its series from Alpha Vantage
\* has returned it and the cache holds it.
C13_Witness ==
    /\ DoneWith("direct", "hist")
    /\ ~proc["direct"].hit
    /\ GotData(proc["direct"])
    /\ fetchLog # <<>>
    /\ proc["direct"].ret # Some(<<>>)
    /\ KeyOf(proc["direct"]) \in DOMAIN cache
    /\ proc["direct"].ret = Some(cache[KeyOf(proc["direct"])].data)

\* each point is later than the one before it, hence than all before it
StrictlyAscending(series) ==
    \A k \in 1..(Len(series) - 1) : series[k].timestamp < series[k + 1].timestamp

\* C14: every series getHistoricalData returns, parsed from the provider, taken
\* from the cache or synthetic, is strictly ascending by timestamp, so no two of
\* its points share a timestamp.
C14_HistoricalAscending ==
    \A p \in Callers :
        DoneWith(p, "hist") =>
            /\ Truthy(proc[p].ret)
            /\ StrictlyAscending(proc[p].ret[1])

\* C14 witness: the provider listed its points newest first and the call
\* returned them oldest first.
C14_Witness ==
    /\ DoneWith("direct", "hist")
    /\ proc["direct"].calls = <<[adapter |-> "avh", outcome |-> "data"]>>
    /\ fetchLog # <<>>
    /\ Len(proc["direct"].ret[1]) = 3
    /\ proc["direct"].ret[1][1].timestamp = DateTimeParse(5)
    /\ proc["direct"].ret[1][3].timestamp = DateTimeParse(7)

\* the base price the specification gives for a symbol
TableBasePrice(symbol) ==
    CASE symbol = "IXIC" -> 15000
      [] symbol = "SPX" -> 4500
      [] symbol = "DJI" -> 35000
      [] symbol = "AAPL" -> 175
      [] symbol = "GOOGL" -> 140
      [] symbol = "MSFT" -> 350
      [] symbol = "TSLA" -> 250
      [] OTHER -> 100

\* C15: a synthetic quote (source 'Demo Data') has price = basePrice + d with
\* -5 <= d < 5, change = d, changePercent = d / basePrice * 100, previousClose =
\* basePrice, low <= price <= high and a volume in 0 .. 9999999, where basePrice
\* is the table entry of the symbol, or 100 for a symbol outside the table.
C15_SyntheticQuote ==
    \A p \in Callers :
        (DoneWith(p, "quote") /\ Truthy(proc[p].ret)
             /\ proc[p].ret[1].source = "Demo Data") =>
            LET q == proc[p].ret[1]
                basePrice == TableBasePrice(q.symbol)
                d == q.price - basePrice
            IN /\ q.symbol = proc[p].symbol
               /\ -5 <= d /\ d < 5
               /\ q.change = d
               /\ q.changePercent.den # 0
               /\ q.changePercent.num * basePrice = d * 100 * q.changePercent.den
               /\ q.previousClose = basePrice
               /\ q.low <= q.price /\ q.price <= q.high
               /\ q.volume \in 0..9999999

\* C15 witness: a synthetic quote for GLD, a symbol outside the table, with the
\* lowest draw.
C15_Witness ==
    /\ DoneWith("refresh", "quote")
    /\ proc["refresh"].symbol = "GLD"
    /\ Truthy(proc["refresh"].ret)
    /\ proc["refresh"].ret[1].source = "Demo Data"
    /\ proc["refresh"].ret[1].price = 95
    /\ proc["refresh"].ret[1].previousClose = 100

\* C16: in demo mode the series of every requested RSI, MACD, SMA or EMA
\* indicator has exactly 51 points one day apart; RSI values lie in 30 .. 70,
\* and macd, signal and histogram within 5, 4 and 2.5 of zero.
C16_SyntheticIndicator ==
    \A p \in Callers :
        (DoneWith(p, "ind") /\ ~proc[p].hit /\ keys.av = "demo") =>
            \A i \in 1..Len(proc[p].indicators) :
                LET name == proc[p].indicators[i]
                IN name \in {"RSI", "MACD", "SMA", "EMA"} =>
                    /\ name \in DOMAIN proc[p].ret[1]
                    /\ LET series == proc[p].ret[1][name]
                       IN /\ Len(series) = 51
                          /\ \A k \in 1..(Len(series) - 1) :
                                 series[k + 1].timestamp - series[k].timestamp = OneDay
                          /\ name = "RSI" =>
                                 \A k \in 1..Len(series) : series[k].value \in 30..70
                          /\ name = "MACD" =>
                                 \A k \in 1..Len(series) :
                                     /\ series[k].macd \in -5..5
                                     /\ series[k].signal \in -4..4
                                     /\ 2 * series[k].histogram \in -5..5

\* the series the call returned was made by getFallbackHistoricalData in this call
SyntheticHistorical(pr) ==
    /\ pr.pc = "done" /\ pr.kind = "hist" /\ ~pr.hit
    /\ (keys.av = "demo" \/ AllNoData(pr.calls))

\* C17: a synthetic historical series has exactly 101 points five minutes apart,
\* its last point is stamped with the time at which the call returns it, and
\* there is a synthetic quote price of the symbol (base price + d, -5 <= d < 5)
\* that every close is within 10 of.
C17_SyntheticHistorical ==
    /\ [](\A p \in Callers :
            SyntheticHistorical(proc[p]) =>
                LET series == proc[p].ret[1]
                    basePrice == TableBasePrice(proc[p].symbol)
                IN /\ Len(series) = 101
                   /\ \A k \in 1..(Len(series) - 1) :
                          series[k + 1].timestamp - series[k].timestamp = FiveMinutes
                   /\ series[Len(series)].timestamp <= now
                   /\ \E quotePrice \in (basePrice - 5)..(basePrice + 4) :
                          \A k \in 1..Len(series) :
                              series[k].close - quotePrice \in -10..10)
    /\ [][\A p \in Callers :
            (proc[p].pc # "done" /\ SyntheticHistorical(proc'[p])) =>
                LET series == proc'[p].ret[1]
                IN series[Len(series)].timestamp = now']_vars

\* C17 witness: Alpha Vantage was asked over the network and had no series; the
\* call returned 101 synthetic points, the last stamped now, with the lowest
\* close there can be for AAPL.
C17_Witness ==
    /\ SyntheticHistorical(proc["direct"])
    /\ keys.av = "real"
    /\ fetchLog # <<>>
    /\ Len(proc["direct"].ret[1]) = 101
    /\ proc["direct"].ret[1][101].timestamp = now
    /\ proc["direct"].ret[1][1].timestamp = now - 100 * FiveMinutes
    /\ proc["direct"].ret[1][1].close = 160

\* the step is a call of setApiKeys: it is counted and no request moves
Reconfigured == nreq' = nreq + 1 /\ proc' = proc

\* C18: the credentials change only in a call of setApiKeys, and after
\* setApiKeys(k) the credentials are those of k, a provider that k leaves out
\* included: it does not keep its earlier credential.
C18_KeysReplacedWhole ==
    [][/\ keys' # keys => Reconfigured
       /\ Reconfigured => keys' \in KeyArgs]_vars

\* the part of C18 that holds: only setApiKeys changes a credential
C18_OnlyReconfiguration == [][keys' # keys => Reconfigured]_vars

\* whether the market is open at time t, from the instant of construction
OpenAt(t) ==
    isMarketOpen(MinutesLater(ticker.born, (t - StartTime) \div OneMinute), clock.offset)

PeriodOf(timer) == IF timer = "fast" THEN Ms(30000) ELSE Ms(300000)

CycleOf(timer, at) ==
    {c \in 1..Len(ticker.cycles) :
        ticker.cycles[c].origin = timer /\ ticker.cycles[c].at = at}

\* C19: the k-th tick of a timer comes k periods after construction; a
\* 30-second tick starts a refresh cycle exactly when the market is open at that
\* tick and a 5-minute tick exactly when it is closed, and no cycle but the one
\* of page load starts otherwise; a cycle asks for the tracked symbols in list
\* order, one request each, the first at once and each next one 200 ms after the
\* one before it has returned.
C19_RefreshCadence ==
    /\ \A i \in 1..Len(ticker.ticks) :
          LET tick == ticker.ticks[i]
              nth == Cardinality({j \in 1..i : ticker.ticks[j].timer = tick.timer})
          IN /\ tick.at = StartTime + nth * PeriodOf(tick.timer)
             /\ Cardinality(CycleOf(tick.timer, tick.at))
                    = IF (tick.timer = "fast") = OpenAt(tick.at) THEN 1 ELSE 0
    /\ \A c \in 1..Len(ticker.cycles) :
          LET cycle == ticker.cycles[c]
              n == Len(cycle.issued)
          IN /\ IF cycle.origin = "load" THEN c = 1 /\ cycle.at = StartTime
                ELSE \E i \in 1..Len(ticker.ticks) :
                        /\ ticker.ticks[i].timer = cycle.origin
                        /\ ticker.ticks[i].at = cycle.at
             /\ n \in 1..Len(tickerSymbols)
             /\ cycle.pc = "finished" => n = 6
             /\ \A k \in 1..n :
                    cycle.issued[k].symbol
                        = <<"IXIC", "SPX", "DJI", "GLD", "BTC-USD", "ETH-USD">>[k]
             /\ cycle.issued[1].at = cycle.at
             /\ \A k \in 1..(n - 1) :
                    /\ cycle.issued[k].back # None
                    /\ cycle.issued[k + 1].at = cycle.issued[k].back[1] + Ms(200)

\* C19 witness: built on a Monday at 15:58 with a slow network and never
\* destroyed, the ticker refreshed on the first 30-second tick, did not on the
\* one at 16:00, and refreshed on the 5-minute tick; that cycle has finished.
C19_Witness ==
    /\ ticker.constructed /\ ~ticker.destroyed
    /\ ticker.born = [day |-> 1, minute |-> 1258]
    /\ ticker.latency = Ms(6000)
    /\ CycleOf("fast", StartTime + Ms(30000)) # {}
    /\ \E i \in 1..Len(ticker.ticks) :
          ticker.ticks[i] = [timer |-> "fast", at |-> StartTime + Ms(120000)]
    /\ CycleOf("fast", StartTime + Ms(120000)) = {}
    /\ \E c \in CycleOf("slow", StartTime + Ms(300000)) :
          /\ ticker.cycles[c].pc = "finished"
          /\ Len(ticker.cycles[c].issued) = 6

\* C20: no refresh cycle starts once destroy() has run.
C20_NoCycleAfterDestroy ==
    \A c \in 1..Len(ticker.cycles) : ~ticker.cycles[c].afterDestroy

\* the part of C20 that holds: the 30-second timer starts no cycle after destroy()
C20_FastTimerStopped ==
    \A c \in 1..Len(ticker.cycles) :
        ticker.cycles[c].afterDestroy => ticker.cycles[c].origin = "slow"

\* the adapters that call Alpha Vantage
IsAlphaVantage(adapter) == adapter \notin {"fh", "pg"}

\* C21: two Alpha Vantage requests are at least 12000 ms apart
\* (API_CONFIG.ALPHA_VANTAGE.rateLimit), so at most 5 of them fall in any window
\* of 60 seconds.
C21_AlphaVantageRateLimit ==
    \A i, j \in 1..Len(fetchLog) :
        (i < j /\ IsAlphaVantage(fetchLog[i].adapter) /\ IsAlphaVantage(fetchLog[j].adapter)) =>
            fetchLog[j].t - fetchLog[i].t >= Ms(12000)

\* C22: once initializeAPIConfig has run, the manager is in demo mode exactly
\* when it reported demo mode, and a provider whose API_CONFIG key is not 'demo'
\* has that key in the manager, whose adapter then calls the network.
C22_ConfigEnablesRealData ==
    config.report # None =>
        /\ AllDemo <=> config.report[1]
        /\ config.keys.ALPHA_VANTAGE # "demo" => keys.av = config.keys.ALPHA_VANTAGE
        /\ config.keys.FINNHUB # "demo" => keys.fh = config.keys.FINNHUB
        /\ config.keys.POLYGON # "demo" => keys.pg = config.keys.POLYGON

FailedAnswers == {"transport", "status", "nonjson", "noresponse"}

\* C23: when the POST of a sent message fails (transport error, non-2xx status,
\* body that is not JSON or has no response field), the AI reply shown for it
\* is the error message, and the message caused exactly one fetch.
C23_ChatBackendFailure ==
    \A c \in 1..Len(chat.calls) :
        LET call == chat.calls[c]
        IN (call.origin = "send" /\ call.pc = "done" /\ call.answer[1] \in FailedAnswers) =>
               /\ call.fetches = 1
               /\ \E i \in 1..Len(chat.messages) :
                     chat.messages[i] = [sender |-> "ai", call |-> c, text |-> "error"]

\* the part of C23 that holds: it holds of a client that has an API URL
C23_RemoteBackendFailure ==
    \A c \in 1..Len(chat.calls) :
        LET call == chat.calls[c]
        IN (call.origin = "send" /\ call.result = "threw") =>
               /\ call.fetches = 1
               /\ \E i \in 1..Len(chat.messages) :
                     chat.messages[i] = [sender |-> "ai", call |-> c, text |-> "error"]

\* C24: testConnection resolves to true exactly when the backend answered the
\* test query with a 2xx reply that has a response field, and to false
\* otherwise, whether or not the client was given an API URL.
C24_TestConnection ==
    \A c \in 1..Len(chat.calls) :
        LET call == chat.calls[c]
        IN (call.origin = "test" /\ call.pc = "done") =>
               /\ call.connected # None
               /\ call.connected[1] <=> (call.answer[1] = "reply")

\* C30: whenever no queryAI call is in flight, the loading indicator is hidden
\* and the chat input is enabled, whichever way the calls ended; a call in its
\* fetch was entered with the indicator shown.
C30_LoadingCleared ==
    (\A c \in 1..Len(chat.calls) : chat.calls[c].pc = "done") =>
        /\ chat.indicator = "none"
        /\ ~chat.disabled

\* C30 witness: a call ended by a transport error and a call ended by a body
\* without a response field, on a client with an API URL (both threw); nothing
\* is in flight and the indicator is hidden.
C30_Witness ==
    /\ Len(chat.calls) = 2
    /\ chat.calls[1].pc = "done" /\ chat.calls[1].answer = Some("transport")
    /\ chat.calls[1].result = "threw"
    /\ chat.calls[2].pc = "done" /\ chat.calls[2].answer = Some("noresponse")
    /\ chat.calls[2].result = "threw"
    /\ chat.indicator = "none"
    /\ ~chat.disabled

\* the calls of the refresh cycles that have returned, as <<cycle, index>>
DisplayedCalls ==
    {ck \in (1..Len(ticker.cycles)) \X (1..Len(tickerSymbols)) :
        /\ ck[2] <= Len(ticker.cycles[ck[1]].issued)
        /\ ticker.cycles[ck[1]].issued[ck[2]].back # None}

\* the longest a refresh cycle takes while the provider answers
CycleSpan == Len(tickerSymbols) * (ticker.latency + refreshPause)

\* C25: with a real key, every quote displayed by a cycle of the 30-second
\* timer was fetched during that cycle, and while the market is open and the
\* ticker alive the quote on display for a symbol is never based on a fetch
\* older than 30 seconds plus the duration of a cycle.
C25_LiveUpdates ==
    keys.av # "demo" =>
        \A ck \in DisplayedCalls :
            LET cycle == ticker.cycles[ck[1]]
                call == cycle.issued[ck[2]]
                latest == \A other \in DisplayedCalls :
                              ticker.cycles[other[1]].issued[other[2]].symbol
                                  = call.symbol
                              => ticker.cycles[other[1]].issued[other[2]].back[1]
                                     <= call.back[1]
            IN cycle.origin = "fast" =>
                  /\ call.fetched[1] >= cycle.at
                  /\ (latest /\ OpenAt(now) /\ ~ticker.destroyed)
                         => now - call.fetched[1] <= fastPeriod + CycleSpan

\* C26: for each of RSI, MACD, SMA, EMA and BBANDS, when Alpha Vantage holds a
\* real key and answers with a technical-analysis payload, the adapter yields
\* a non-empty series (which getTechnicalIndicators stores under the
\* indicator's name).
C26_SupportedIndicators ==
    (/\ probe.call.kind = "ind"
     /\ probe.call.stage \in {"RSI", "MACD", "SMA", "EMA", "BBANDS"}
     /\ keys.av # "demo"
     /\ probe.resp.kind = "json"
     /\ Truthy(probe.resp.body.ta)
     /\ probe.out # None)
        => /\ Truthy(probe.out[1].value)
           /\ Len(probe.out[1].value[1]) > 0

\* the part of C26 that holds: RSI, MACD, SMA and EMA yield a non-empty series
\* from a technical-analysis payload, and a name outside functionMap never
\* reaches the provider
C26_ParsedIndicators ==
    (/\ probe.call.kind = "ind"
     /\ probe.call.stage \in {"RSI", "MACD", "SMA", "EMA"}
     /\ probe.resp.kind = "json"
     /\ Truthy(probe.resp.body.ta)
     /\ probe.out # None)
        => /\ Truthy(probe.out[1].value)
           /\ Len(probe.out[1].value[1]) > 0

\* C27: no step removes a key from the cache, and an entry is only ever
\* replaced by one written at the same or a later time.
C27_CacheNeverEvicts ==
    [][\A key \in DOMAIN cache :
          /\ key \in DOMAIN cache'
          /\ cache'[key].timestamp >= cache[key].timestamp]_vars

\* C27 witness: a quote request found the entry of its key stale, still in the
\* cache, and has written over it.
C27_Witness ==
    \E p \in Callers :
        /\ DoneWith(p, "quote")
        /\ proc[p].entry = "stale"
        /\ KeyOf(proc[p]) \in DOMAIN cache
        /\ cache[KeyOf(proc[p])].timestamp = now
        /\ now >= StartTime + cacheTimeout

\* C28: within one request the provider calls are made one after another: every
\* call but the last has completed, with no data for a quote or historical
\* request, and the last one is open exactly while the request waits for the
\* rate limiter or for the network; so at most one call of a request is in
\* flight.
C28_SequentialAttempts ==
    \A p \in Callers :
        LET calls == proc[p].calls
            n == Len(calls)
        IN /\ \A i \in 1..(n - 1) :
                 /\ calls[i].outcome # "pending"
                 /\ proc[p].kind \in {"quote", "hist"} => calls[i].outcome = "nodata"
           /\ (n > 0 /\ calls[n].outcome = "pending")
                  <=> proc[p].pc \in {"rlwait", "fetch"}
           /\ Cardinality({i \in 1..n : calls[i].outcome = "pending"}) <= 1

\* C28 witness: Alpha Vantage and then Finnhub had no data, one of them asked
\* over the network, and the request now waits for Polygon's answer, its only
\* open call.
C28_Witness ==
    \E p \in Callers :
        /\ proc[p].kind = "quote"
        /\ proc[p].pc = "fetch"
        /\ proc[p].calls = <<[adapter |-> "av", outcome |-> "nodata"],
                             [adapter |-> "fh", outcome |-> "nodata"],
                             [adapter |-> "pg", outcome |-> "pending"]>>
        /\ Cardinality({i \in 1..Len(fetchLog) : fetchLog[i].req = proc[p].req}) = 2

MessagesOf(c, sender) ==
    {i \in 1..Len(chat.messages) :
        chat.messages[i].call = c /\ chat.messages[i].sender = sender}

\* C31: a sendMessage call on an empty or blank input appends no message and
\* starts no request; a call on any other input appends the trimmed text as the
\* user message and starts one request; that request has its user message in
\* the chat from its start, no AI message while it is pending and exactly one,
\* after the user message, from the step in which it settles.
C31_ChatProtocol ==
    /\ [](\A c \in 1..Len(chat.calls) :
            chat.calls[c].origin = "send" =>
                /\ Cardinality(MessagesOf(c, "user")) = 1
                /\ Cardinality(MessagesOf(c, "ai"))
                       = IF chat.calls[c].pc = "done" THEN 1 ELSE 0
                /\ \A u \in MessagesOf(c, "user") : \A a \in MessagesOf(c, "ai") : u < a)
    /\ [][chat'.clicks # chat.clicks =>
            IF \A i \in 1..Len(chat.draft) : chat.draft[i] \in {" ", "\t", "\n"}
            THEN /\ chat'.messages = chat.messages
                 /\ chat'.calls = chat.calls
                 /\ chat'.indicator = chat.indicator
            ELSE /\ Len(chat'.calls) = Len(chat.calls) + 1
                 /\ chat'.calls[Len(chat'.calls)].origin = "send"
                 /\ chat'.calls[Len(chat'.calls)].pc = "fetch"
                 /\ Len(chat'.messages) = Len(chat.messages) + 1
                 /\ LET said == chat'.messages[Len(chat'.messages)]
                    IN /\ said.sender = "user"
                       /\ said.call = Len(chat'.calls)
                       /\ said.body # <<>>
                       /\ ~IsSpace(said.body[1])
                       /\ ~IsSpace(said.body[Len(said.body)])]_vars

\* C31 witness: sendMessage was called on a blank input and then on " hi \n";
\* the chat holds the user message "hi", the welcome message that came while
\* the request was pending, and the one AI message of the request.
C31_Witness ==
    /\ chat.clicks = 2
    /\ Len(chat.calls) = 1
    /\ chat.calls[1].origin = "send"
    /\ chat.calls[1].pc = "done"
    /\ Len(chat.messages) = 3
    /\ chat.messages[1].sender = "user"
    /\ chat.messages[1].body = <<"h", "i">>
    /\ chat.messages[2].text = "welcome"
    /\ chat.messages[3].sender = "ai"
    /\ chat.messages[3].call = 1

\* the names in a list of indicators
NamesOf(indicators) == {indicators[i] : i \in 1..Len(indicators)}

\* C32: the entry under the quote key of a symbol holds a quote of that symbol,
\* every quote returned is of the symbol asked for, and every indicator result
\* returned, from the cache or not, holds only indicators that its request
\* named.
C32_CacheKeyIntegrity ==
    /\ \A key \in DOMAIN cache :
          key[1] = "quote" => cache[key].data.symbol = key[2]
    /\ \A p \in Callers :
          /\ (DoneWith(p, "quote") /\ Truthy(proc[p].ret))
                 => proc[p].ret[1].symbol = proc[p].symbol
          /\ DoneWith(p, "ind")
                 => DOMAIN proc[p].ret[1] \subseteq NamesOf(proc[p].indicators)

\* the part of C32 that holds: it holds of quotes, and of indicator requests
\* that found no entry under their key
C32_QuoteKeyIntegrity ==
    /\ \A key \in DOMAIN cache :
          key[1] = "quote" => cache[key].data.symbol = key[2]
    /\ \A p \in Callers :
          /\ (DoneWith(p, "quote") /\ Truthy(proc[p].ret))
                 => proc[p].ret[1].symbol = proc[p].symbol
          /\ (DoneWith(p, "ind") /\ ~proc[p].hit)
                 => DOMAIN proc[p].ret[1] \subseteq NamesOf(proc[p].indicators)

\* C33: of two overlapping getRealTimeQuote calls for the same symbol, provider
\* adapters are invoked for at most one, and both return the same quote.
C33_RequestsCoalesced ==
    \A p, q \in Callers :
        (/\ p # q
         /\ proc[p].kind = "quote" /\ proc[q].kind = "quote"
         /\ proc[p].symbol = proc[q].symbol
         /\ {proc[p].req, proc[q].req} \in overlap) =>
            /\ proc[p].calls = <<>> \/ proc[q].calls = <<>>
            /\ (proc[p].pc = "done" /\ proc[q].pc = "done") => proc[p].ret = proc[q].ret

\* C34: a getRealTimeQuote call that missed the cache comes to a 'Demo Data'
\* quote only when every provider that then holds a real key has been tried and
\* has yielded no data.
C34_SyntheticLast ==
    [][\A p \in Callers :
          (/\ proc'[p].kind = "quote" /\ ~proc'[p].hit
           /\ proc'[p].ret # proc[p].ret
           /\ Truthy(proc'[p].ret)
           /\ proc'[p].ret[1].source = "Demo Data") =>
              \A adapter \in {"av", "fh", "pg"} :
                  keys[adapter] # "demo" =>
                      \E i \in 1..Len(proc'[p].calls) :
                          proc'[p].calls[i] = [adapter |-> adapter, outcome |-> "nodata"]]_vars

\* the calls of the refresh cycles issued in this step, as <<cycle, index>>
NewlyIssued ==
    {ck \in (1..Len(ticker'.cycles)) \X (1..Len(tickerSymbols)) :
        /\ ck[2] <= Len(ticker'.cycles[ck[1]].issued)
        /\ \/ ck[1] > Len(ticker.cycles)
           \/ ck[2] > Len(ticker.cycles[ck[1]].issued)}

\* C35: a getRealTimeQuote call made while Alpha Vantage holds a real key is
\* never answered from the cache with a 'Demo Data' quote.
C35_SyntheticNotOutliving ==
    [][\A ck \in NewlyIssued :
          LET call == ticker'.cycles[ck[1]].issued[ck[2]]
          IN (call.hit /\ keys.av # "demo") =>
                 cache[quoteKey(call.symbol)].data.source # "Demo Data"]_vars

\* C36: an indicator result in the cache holds a series for every indicator of
\* its list that the adapter can supply (RSI, MACD, SMA, EMA).
C36_CachedIndicatorsComplete ==
    \A key \in DOMAIN cache :
        key[1] = "indicators" =>
            \A i \in 3..Len(key) :
                key[i] \in {"RSI", "MACD", "SMA", "EMA"} =>
                    key[i] \in DOMAIN cache[key].data

====
